---- MODULE Spec2Model ----
(***************************************************************************)
(* Model of zk-slot-timeline-soundness (src/app.py).                       *)
(*                                                                         *)
(* Python strings are sequences of one-character strings, so that the      *)
(* parsing of a slot argument, the formatting of a storage value (bytes -> *)
(* hex text) and of a failed read ("ERROR:" + message) are computed and    *)
(* can be compared.  Characters are those of Latin-1 (code points 0-255),  *)
(* the ones a string of this module can hold.                              *)
(*                                                                         *)
(* Spec           the command line program: main() up to process exit.     *)
(* SpecSummarize  summarize_changes called on series drawn from bounded    *)
(*                sets.                                                    *)
(*                                                                         *)
(* app.py as shipped does not compile: lines 88-92 are indented less than  *)
(* the loop they sit in and line 93 is indented more than line 92.  The    *)
(* variable layout ranges over the file as written and over the two ways   *)
(* the block structure can be read.  In both readings line 88 reads the    *)
(* name start_time, which nothing binds.                                   *)
(***************************************************************************)
EXTENDS Integers, Sequences, FiniteSets, TLC

VARIABLES
    pc,             \* position of the process
    usage,          \* what argparse makes of the command line (line 132)
    layout,         \* how lines 85-98 nest (see above)
    hex_prefix,     \* whether HexBytes.hex() of the installed hexbytes emits "0x"
    from_block,     \* args.from_block
    to_block,       \* args.to_block
    step,           \* args.step
    address_ok,     \* Web3.is_address(args.address)
    slot_args,      \* args.slot: sequence of strings (empty when not given)
    manifest,       \* parsed content of args.manifest, or none
    rpc,            \* scheme of args.rpc
    connected,      \* w3.is_connected()
    slots,          \* parse_slots result: sequence of <<label, index>>
    scan_called,    \* scan_timeline has been entered
    blocks,         \* scan_timeline: blocks
    i,              \* scan_timeline: loop counter
    out,            \* scan_timeline: out, as a sequence of <<label, series>>
    reads,          \* number of get_storage_at calls made
    notified,       \* number of progress lines printed
    exception,      \* exception propagating out of main, or "none"
    exit_code,      \* process exit status, -1 while running
    timeline,       \* main: timeline, None before line 168 completes
    change_report,  \* main: change_report, None before line 173
    total_changes,  \* main: total_changes, None before line 172
    ok,             \* main: ok, None before line 185
    results,        \* what the reader gave at each sample of one slot
    sc_series,      \* summarize_changes: series
    sc_changes      \* summarize_changes: the list returned, None before the call

vars == <<pc, usage, layout, hex_prefix, from_block, to_block, step, address_ok,
          slot_args, manifest, rpc, connected, slots, scan_called, blocks, i,
          out, reads, notified, exception, exit_code, timeline,
          change_report, total_changes, ok, results, sc_series, sc_changes>>

\* ---------------------------------------------------------------- bounds
MaxBlock == 5
MaxStride == 3
MaxSamples == 3

\* ------------------------------------------------------------- strings
HexDigits == <<"0","1","2","3","4","5","6","7","8","9","a","b","c","d","e","f">>

\* the characters str.lower() changes, and what it changes them to
UpperLetters ==
    <<"A", "B", "C", "D", "E", "F", "G", "H", "I", "J", "K", "L", "M",
      "N", "O", "P", "Q", "R", "S", "T", "U", "V", "W", "X", "Y", "Z",
      "À", "Á", "Â", "Ã", "Ä", "Å", "Æ", "Ç", "È", "É", "Ê", "Ë", "Ì",
      "Í", "Î", "Ï", "Ð", "Ñ", "Ò", "Ó", "Ô", "Õ", "Ö", "Ø", "Ù", "Ú",
      "Û", "Ü", "Ý", "Þ">>

LowerLetters ==
    <<"a", "b", "c", "d", "e", "f", "g", "h", "i", "j", "k", "l", "m",
      "n", "o", "p", "q", "r", "s", "t", "u", "v", "w", "x", "y", "z",
      "à", "á", "â", "ã", "ä", "å", "æ", "ç", "è", "é", "ê", "ë", "ì",
      "í", "î", "ï", "ð", "ñ", "ò", "ó", "ô", "õ", "ö", "ø", "ù", "ú",
      "û", "ü", "ý", "þ">>

\* the characters str.strip() removes: tab, newline, vertical tab, form feed,
\* carriage return, U+001C to U+001F, space, U+0085 and U+00A0
Whitespace ==
    {"\t", "\n", "", "\f", "\r", "", "", "", "", " ", "", " "}

LowerChar(c) ==
    IF \E k \in 1..Len(UpperLetters) : UpperLetters[k] = c
    THEN LowerLetters[CHOOSE k \in 1..Len(UpperLetters) : UpperLetters[k] = c]
    ELSE c

Lower(s) == [k \in 1..Len(s) |-> LowerChar(s[k])]

RECURSIVE StripLeft(_)
StripLeft(s) == IF s # <<>> /\ Head(s) \in Whitespace THEN StripLeft(Tail(s)) ELSE s

RECURSIVE StripRight(_)
StripRight(s) ==
    IF s # <<>> /\ s[Len(s)] \in Whitespace
    THEN StripRight(SubSeq(s, 1, Len(s) - 1))
    ELSE s

Strip(s) == StripRight(StripLeft(s))

StartsWith(s, p) == Len(s) >= Len(p) /\ SubSeq(s, 1, Len(p)) = p

IsHexDigit(c) == \E d \in 1..16 : HexDigits[d] = c

DigitVal(c) == (CHOOSE d \in 1..16 : HexDigits[d] = c) - 1

RECURSIVE HexVal(_)
HexVal(ds) ==
    IF ds = <<>> THEN 0
    ELSE 16 * HexVal(SubSeq(ds, 1, Len(ds) - 1)) + DigitVal(ds[Len(ds)])

NotUnderscore(c) == c # "_"

\* what int(s, 16) accepts after the "0x": hex digits with single underscores
\* before or between them
IntBodyOk(ds) ==
    /\ ds # <<>>
    /\ \A k \in 1..Len(ds) : IsHexDigit(ds[k]) \/ ds[k] = "_"
    /\ ds[Len(ds)] # "_"
    /\ \A k \in 1..(Len(ds) - 1) : ~(ds[k] = "_" /\ ds[k + 1] = "_")

\* position of the first ":" in s, 0 when there is none
RECURSIVE ColonAt(_, _)
ColonAt(s, k) ==
    IF k > Len(s) THEN 0 ELSE IF s[k] = ":" THEN k ELSE ColonAt(s, k + 1)

\* ------------------------------------------------------- parse_slot_hex
Raise(e) == [ok |-> FALSE, err |-> e]
Return(v) == [ok |-> TRUE, val |-> v]

parse_slot_hex(raw) ==
    LET s == Lower(Strip(raw)) IN
    IF ~StartsWith(s, <<"0", "x">>) THEN Raise("ValueError")
    ELSE LET ds == SubSeq(s, 3, Len(s)) IN
         IF IntBodyOk(ds)
         THEN Return(HexVal(SelectSeq(ds, NotUnderscore)))
         ELSE Raise("ValueError")

\* ---------------------------------------------------------- parse_slots
NoManifest == [kind |-> "none"]

\* one --slot item: "label:0xSLOT" or "0xSLOT"
SplitItem(item) ==
    LET c == ColonAt(item, 1) IN
    IF c > 0 THEN <<SubSeq(item, 1, c - 1), SubSeq(item, c + 1, Len(item))>>
    ELSE <<item, item>>

\* the loops of lines 42-47, 54-55, 57-58 over <<label, raw>> pairs: the first
\* raw that does not parse raises
RECURSIVE ParsePairs(_, _)
ParsePairs(pairs, acc) ==
    IF pairs = <<>> THEN Return(acc)
    ELSE LET p == parse_slot_hex(Head(pairs)[2]) IN
         IF p.ok THEN ParsePairs(Tail(pairs), Append(acc, <<Head(pairs)[1], p.val>>))
         ELSE p

parse_slots(slot, man) ==
    IF slot # <<>>
    THEN ParsePairs([k \in 1..Len(slot) |-> SplitItem(slot[k])], <<>>)
    ELSE IF man.kind # "none"
    THEN CASE man.kind = "list" ->
                ParsePairs([k \in 1..Len(man.items) |-> <<man.items[k], man.items[k]>>], <<>>)
           [] man.kind = "dict" -> ParsePairs(man.items, <<>>)
           [] OTHER -> Raise("ValueError")
    ELSE Raise("ValueError")

\* to_checksum: raises unless Web3.is_address accepts the text
to_checksum(is_address) == IF is_address THEN Return("checksum") ELSE Raise("ValueError")

\* line 148
RpcUrlOk(scheme) == scheme \in {"http://", "https://"}

\* lines 134 and 137
RangeInverted(f, t) == f > t

StepNotPositive_NegativeOnly(s) == s < 0

StepNotPositive(s) == s <= 0

\* ---------------------------------------------------------------- range
RECURSIVE RangeUp(_, _, _)
RangeUp(v, stop, st) == IF v < stop THEN <<v>> \o RangeUp(v + st, stop, st) ELSE <<>>

RECURSIVE RangeDown(_, _, _)
RangeDown(v, stop, st) == IF v > stop THEN <<v>> \o RangeDown(v + st, stop, st) ELSE <<>>

\* list(range(start, stop, st)) for st # 0
PyRange(start, stop, st) ==
    IF st > 0 THEN RangeUp(start, stop, st) ELSE RangeDown(start, stop, st)

SampleBlocks_ExclusiveEnd(start, end, st) == PyRange(start, end, st)

\* line 83
SampleBlocks(start, end, st) == PyRange(start, end + 1, st)

\* {lbl: [] for lbl, _ in slots} (line 82): a later duplicate label keeps the
\* first position
RECURSIVE DictKeys(_, _)
DictKeys(ss, acc) ==
    IF ss = <<>> THEN acc
    ELSE IF \E k \in 1..Len(acc) : acc[k] = Head(ss)[1]
         THEN DictKeys(Tail(ss), acc)
         ELSE DictKeys(Tail(ss), Append(acc, Head(ss)[1]))

EmptyTimelines(ss) ==
    LET ks == DictKeys(ss, <<>>) IN [k \in 1..Len(ks) |-> <<ks[k], <<>>>>]

\* names bound at module level of app.py (imports, assignments, defs)
ModuleGlobals ==
    {"os", "sys", "json", "time", "argparse", "Dict", "List", "Tuple", "Optional",
     "Web3", "DEFAULT_RPC", "Slot", "to_checksum", "parse_slot_hex", "parse_slots",
     "get_storage_at", "scan_timeline", "summarize_changes", "parse_args", "main"}

\* locals of scan_timeline bound before line 88
ScanLocals ==
    {"w3", "address", "slots", "start_block", "end_block", "step", "out", "blocks",
     "total", "i", "b", "pct"}

NameBound(n) == n \in ScanLocals \cup ModuleGlobals

\* ------------------------------------------------- recording (93-98)
Ok(raw) == [ok |-> TRUE, raw |-> raw]
Fail(msg) == [ok |-> FALSE, msg |-> msg]

\* bytes.hex(): two lower-case digits per byte
RECURSIVE BytesHex(_)
BytesHex(bs) ==
    IF bs = <<>> THEN <<>>
    ELSE <<HexDigits[(Head(bs) \div 16) + 1], HexDigits[(Head(bs) % 16) + 1]>>
         \o BytesHex(Tail(bs))

\* val.hex() of line 68; HexBytes.hex() puts "0x" in front before hexbytes 1.0
ValueOutcome(raw, prefixed) ==
    (IF prefixed THEN <<"0", "x">> ELSE <<>>) \o BytesHex(raw)

ErrorOutcome_MessageOnly(msg) == msg

\* f"ERROR:{e}" of line 97
ErrorOutcome(msg) == <<"E", "R", "R", "O", "R", ":">> \o msg

\* lines 94-97: the value recorded for one read
RecordedValue(r, prefixed) ==
    IF r.ok THEN ValueOutcome(r.raw, prefixed) ELSE ErrorOutcome(r.msg)

\* out[lbl].append(obs)
AppendTo(o, lbl, obs) ==
    [k \in 1..Len(o) |-> IF o[k][1] = lbl THEN <<lbl, Append(o[k][2], obs)>> ELSE o[k]]

\* the loop of line 93 for block b; rs[j] is what the reader gives for slots[j]
RECURSIVE RecordSlots(_, _, _, _, _, _)
RecordSlots(o, ss, rs, j, b, prefixed) ==
    IF j > Len(ss) THEN o
    ELSE RecordSlots(AppendTo(o, ss[j][1], <<b, RecordedValue(rs[j], prefixed)>>),
                     ss, rs, j + 1, b, prefixed)

\* ----------------------------------------------- summarize_changes
None == [some |-> FALSE]
Some(v) == [some |-> TRUE, val |-> v]

\* val != prev, where prev may be None
Differs(val, prev) == ~prev.some \/ prev.val # val

\* prev is never assigned
RECURSIVE CollapseNoPrevUpdate(_, _, _, _)
CollapseNoPrevUpdate(series, k, prev, changes) ==
    IF k > Len(series) THEN changes
    ELSE IF Differs(series[k][2], prev)
         THEN CollapseNoPrevUpdate(series, k + 1, prev, Append(changes, series[k]))
         ELSE CollapseNoPrevUpdate(series, k + 1, prev, changes)

summarize_changes_NoPrevUpdate(series) == CollapseNoPrevUpdate(series, 1, None, <<>>)

\* prev is assigned only while it is None
RECURSIVE CollapseAgainstFirst(_, _, _, _)
CollapseAgainstFirst(series, k, prev, changes) ==
    IF k > Len(series) THEN changes
    ELSE IF Differs(series[k][2], prev)
         THEN CollapseAgainstFirst(series, k + 1,
                                   IF prev.some THEN prev ELSE Some(series[k][2]),
                                   Append(changes, series[k]))
         ELSE CollapseAgainstFirst(series, k + 1, prev, changes)

summarize_changes_AgainstFirst(series) == CollapseAgainstFirst(series, 1, None, <<>>)

\* the loop of lines 108-111
RECURSIVE Collapse(_, _, _, _)
Collapse(series, k, prev, changes) ==
    IF k > Len(series) THEN changes
    ELSE IF Differs(series[k][2], prev)
         THEN Collapse(series, k + 1, Some(series[k][2]), Append(changes, series[k]))
         ELSE Collapse(series, k + 1, prev, changes)

\* prev starts at the first value instead of None
summarize_changes_SkipFirst(series) ==
    IF series = <<>> THEN <<>> ELSE Collapse(series, 1, Some(series[1][2]), <<>>)

summarize_changes(series) == Collapse(series, 1, None, <<>>)

\* ------------------------------------------------------------- inputs
Layouts == {"as_written", "progress_in_loop", "slots_after_loop"}

Usages == {"ok", "error", "help"}

SlotHex1 == <<"0", "x", "1">>
SlotLabelled == <<"a", ":", "0", "x", "1">>
SlotPadded == <<"b", ":", " ", "0", "X", "F", " ">>
SlotUnderscored == <<"c", ":", "\t", "0", "x", "_", "1", "_", "0", "\n">>
SlotBad == <<"z", "z">>

SlotArgLists ==
    {<<>>, <<SlotHex1>>, <<SlotLabelled, SlotPadded>>, <<SlotLabelled, SlotBad>>,
     <<SlotLabelled, SlotLabelled>>, <<SlotUnderscored>>}

Manifests ==
    {NoManifest,
     [kind |-> "list", items |-> <<SlotHex1>>],
     [kind |-> "dict", items |-> <<<<<<"a">>, SlotHex1>>>>],
     [kind |-> "other"]}

RpcSchemes == {"http://", "https://", "ws://"}

RawValues == {<<1>>, <<2>>}
ErrorMessages == {<<"t", "i", "m", "e", "o", "u", "t">>, <<"0", "x", "0", "1">>}
ReadResults == {Ok(raw) : raw \in RawValues} \cup {Fail(msg) : msg \in ErrorMessages}

\* the command line and the environment, fixed for a run
env == <<usage, layout, hex_prefix, from_block, to_block, step, address_ok,
         slot_args, manifest, rpc, connected>>

\* scan_timeline's locals and what it has done
scan == <<scan_called, blocks, i, out, reads, notified>>

\* main's locals after the scan
report == <<timeline, change_report, total_changes, ok>>

\* a call of summarize_changes
call == <<results, sc_series, sc_changes>>

\* main's and scan_timeline's locals before they are assigned
Unassigned ==
    /\ slots = <<>>
    /\ scan_called = FALSE
    /\ blocks = <<>>
    /\ i = 0
    /\ out = <<>>
    /\ reads = 0
    /\ notified = 0
    /\ exception = "none"
    /\ exit_code = -1
    /\ timeline = None
    /\ change_report = None
    /\ total_changes = None
    /\ ok = None

\* the process before the module is loaded, for any command line
Init ==
    /\ pc = "load"
    /\ layout \in Layouts
    /\ hex_prefix \in BOOLEAN
    /\ usage \in Usages
    /\ IF usage = "ok"
       THEN /\ from_block \in 0..MaxBlock
            /\ to_block \in 0..MaxBlock
            /\ step \in -1..MaxStride
            /\ address_ok \in BOOLEAN
            /\ slot_args \in SlotArgLists
            /\ manifest \in Manifests
            /\ rpc \in RpcSchemes
            /\ connected \in BOOLEAN
       ELSE /\ from_block = 0
            /\ to_block = 0
            /\ step = 500
            /\ address_ok = FALSE
            /\ slot_args = <<>>
            /\ manifest = NoManifest
            /\ rpc = "https://"
            /\ connected = FALSE
    /\ results = <<>>
    /\ sc_series = <<>>
    /\ sc_changes = None
    /\ Unassigned

\* ------------------------------------------------------------- main
\* the interpreter compiles app.py before running it
LoadModule ==
    /\ pc = "load"
    /\ IF layout = "as_written"
       THEN /\ exception' = "IndentationError"
            /\ pc' = "raised"
       ELSE /\ pc' = "parse_args"
            /\ UNCHANGED exception
    /\ UNCHANGED <<env, slots, scan, exit_code, report, call>>

\* sys.exit(code)
Exit(code) ==
    /\ exit_code' = code
    /\ pc' = "exited"

\* line 132: argparse ends the process with status 0 after printing the help
\* (-h) and with status 2 on a usage error
ParseArgs ==
    /\ pc = "parse_args"
    /\ CASE usage = "ok" -> pc' = "check_range" /\ UNCHANGED exit_code
         [] usage = "help" -> Exit(0)
         [] OTHER -> Exit(2)
    /\ UNCHANGED <<env, slots, scan, exception, report, call>>

\* lines 134-136
CheckRange ==
    /\ pc = "check_range"
    /\ IF RangeInverted(from_block, to_block)
       THEN Exit(1)
       ELSE pc' = "check_step" /\ UNCHANGED exit_code
    /\ UNCHANGED <<env, slots, scan, exception, report, call>>

\* lines 137-139
CheckStep ==
    /\ pc = "check_step"
    /\ IF StepNotPositive(step)
       THEN Exit(1)
       ELSE pc' = "resolve" /\ UNCHANGED exit_code
    /\ UNCHANGED <<env, slots, scan, exception, report, call>>

\* lines 141-146
ResolveInputs ==
    /\ pc = "resolve"
    /\ LET a == to_checksum(address_ok)
           p == parse_slots(slot_args, manifest)
       IN IF a.ok /\ p.ok
          THEN /\ slots' = p.val
               /\ pc' = "check_rpc"
               /\ UNCHANGED exit_code
          ELSE /\ Exit(1)
               /\ UNCHANGED slots
    /\ UNCHANGED <<env, scan, exception, report, call>>

\* lines 148-150
CheckRpcUrl ==
    /\ pc = "check_rpc"
    /\ IF RpcUrlOk(rpc)
       THEN pc' = "connect" /\ UNCHANGED exit_code
       ELSE Exit(1)
    /\ UNCHANGED <<env, slots, scan, exception, report, call>>

\* lines 152-167: connection test, then the banner, which changes no state
Connect ==
    /\ pc = "connect"
    /\ IF connected
       THEN pc' = "scan_init" /\ UNCHANGED exit_code
       ELSE Exit(1)
    /\ UNCHANGED <<env, slots, scan, exception, report, call>>

\* ---------------------------------------------------- scan_timeline
\* lines 82-84; range() raises ValueError for a zero step
ScanInit ==
    /\ pc = "scan_init"
    /\ scan_called' = TRUE
    /\ out' = EmptyTimelines(slots)
    /\ i' = 0
    /\ IF step = 0
       THEN /\ exception' = "ValueError"
            /\ pc' = "raised"
            /\ UNCHANGED blocks
       ELSE /\ blocks' = SampleBlocks(from_block, to_block, step)
            /\ pc' = "for"
            /\ UNCHANGED exception
    /\ UNCHANGED <<env, slots, reads, notified, exit_code, report, call>>

\* lines 85-86: the for statement takes the next block and computes pct.
\* With lines 88-98 read as part of the loop body they follow at once; read at
\* the depth line 88 is written at they follow the whole loop.  The return of
\* line 99 leaves main at line 168.
ScanFor ==
    /\ pc = "for"
    /\ IF i < Len(blocks)
       THEN /\ i' = i + 1
            /\ pc' = IF layout = "progress_in_loop" THEN "progress" ELSE "for"
       ELSE /\ i' = i
            /\ pc' = IF layout = "progress_in_loop" THEN "scan_return" ELSE "progress"
    /\ UNCHANGED <<env, slots, scan_called, blocks, out, reads, notified,
                   exception, exit_code, report, call>>

\* lines 88-98: line 88 evaluates start_time; were it bound, the progress line
\* would be printed and every slot read at block blocks[i], the reader
\* answering each read with a value or a failure
ScanProgress ==
    /\ pc = "progress"
    /\ IF NameBound("start_time")
       THEN /\ notified' = notified + 1
            /\ \E rs \in [1..Len(slots) -> ReadResults] :
                  out' = RecordSlots(out, slots, rs, 1, blocks[i], hex_prefix)
            /\ reads' = reads + Len(slots)
            /\ pc' = IF layout = "progress_in_loop" THEN "for" ELSE "scan_return"
            /\ UNCHANGED exception
       ELSE /\ exception' = "NameError"
            /\ pc' = "raised"
            /\ UNCHANGED <<notified, out, reads>>
    /\ UNCHANGED <<env, slots, scan_called, blocks, i, exit_code, report, call>>

\* an exception nothing catches ends the process with status 1
Uncaught ==
    /\ pc = "raised"
    /\ Exit(1)
    /\ UNCHANGED <<env, slots, scan, exception, report, call>>

Next ==
    \/ LoadModule
    \/ ParseArgs
    \/ CheckRange
    \/ CheckStep
    \/ ResolveInputs
    \/ CheckRpcUrl
    \/ Connect
    \/ ScanInit
    \/ ScanFor
    \/ ScanProgress
    \/ Uncaught

Spec == Init /\ [][Next]_vars

\* ------------------------------------------- summarize_changes, called
\* a build that compiles; summarize_changes about to be called on a series of
\* (block, value) pairs, the values being what lines 94-97 record for the
\* reader's answers
InitSummarize ==
    /\ pc = "summarize"
    /\ layout \in Layouts \ {"as_written"}
    /\ hex_prefix \in BOOLEAN
    /\ usage = "ok"
    /\ from_block = 0
    /\ step \in 1..MaxStride
    /\ \E n \in 1..MaxSamples :
          /\ to_block = from_block + (n - 1) * step
          /\ results \in [1..n -> ReadResults]
    /\ sc_series = [k \in 1..Len(results) |->
                       <<from_block + (k - 1) * step,
                         RecordedValue(results[k], hex_prefix)>>]
    /\ sc_changes = None
    /\ address_ok = TRUE
    /\ slot_args = <<>>
    /\ manifest = NoManifest
    /\ rpc = "https://"
    /\ connected = TRUE
    /\ Unassigned

\* lines 102-112
Summarize ==
    /\ pc = "summarize"
    /\ sc_changes' = Some(summarize_changes(sc_series))
    /\ pc' = "summarized"
    /\ UNCHANGED <<env, slots, scan, exception, exit_code, report, results, sc_series>>

NextSummarize == Summarize

SpecSummarize == InitSummarize /\ [][NextSummarize]_vars

\* ------------------------------------------------------------ claims
Outcome(obs) == obs[2]

\* scan_timeline has ended, by return or by exception
ScanOver == pc \in {"raised", "exited", "scan_return"}

InputRejected == RangeInverted(from_block, to_block) \/ step <= 0

Malformed ==
    \/ InputRejected
    \/ ~to_checksum(address_ok).ok
    \/ ~parse_slots(slot_args, manifest).ok
    \/ ~RpcUrlOk(rpc)
    \/ ~connected

\* a run on an accepted, well-formed command line and a reachable endpoint
\* that has ended
WellFormedRunEnded == usage = "ok" /\ ~Malformed /\ pc = "exited"

\* C1: for start <= end and stride > 0 the sampled block sequence is strictly
\* ascending, begins at start, has every element congruent to start modulo
\* stride and <= end, and has length floor((end - start) / stride) + 1, so
\* that end is sampled only when stride divides end - start.
C1_BlockSequence ==
    (scan_called /\ from_block <= to_block /\ step > 0) =>
        /\ Len(blocks) = ((to_block - from_block) \div step) + 1
        /\ blocks[1] = from_block
        /\ \A k \in 1..Len(blocks) :
              /\ blocks[k] <= to_block
              /\ (blocks[k] - from_block) % step = 0
        /\ \A k \in 1..(Len(blocks) - 1) : blocks[k] < blocks[k + 1]
        /\ (\E k \in 1..Len(blocks) : blocks[k] = to_block)
              <=> ((to_block - from_block) % step = 0)

C1_Witness ==
    /\ scan_called
    /\ Len(blocks) >= 2
    /\ blocks[Len(blocks)] < to_block

\* C2: a failed read never aborts the scan; when the scan is over every slot's
\* timeline holds exactly one observation per sampled block, in the order
\* sampled, and nothing was raised out of the scan.
C2_ScanCompletes ==
    (scan_called /\ ScanOver) =>
        /\ exception = "none"
        /\ \A k \in 1..Len(out) :
              /\ Len(out[k][2]) = Len(blocks)
              /\ \A j \in 1..Len(blocks) : out[k][2][j][1] = blocks[j]

\* C3: the output of summarize_changes is non-empty, its first element is the
\* timeline's first observation, and no two adjacent elements have equal
\* outcomes.
C3_SummaryShape ==
    sc_changes.some =>
        /\ sc_changes.val # <<>>
        /\ sc_changes.val[1] = sc_series[1]
        /\ \A j \in 1..(Len(sc_changes.val) - 1) :
              Outcome(sc_changes.val[j]) # Outcome(sc_changes.val[j + 1])

C3_Witness ==
    /\ sc_changes.some
    /\ Len(sc_series) = 3
    /\ Len(sc_changes.val) = 2
    /\ Outcome(sc_series[1]) = Outcome(sc_series[2])

AllAdjacentDiffer(s) ==
    \A j \in 1..(Len(s) - 1) : Outcome(s[j]) # Outcome(s[j + 1])

\* C4: summarize_changes is idempotent: summarising the change points of a
\* timeline again gives the same change points, and a series whose adjacent
\* outcomes all differ is returned unchanged.
C4_Idempotent ==
    sc_changes.some =>
        /\ summarize_changes(sc_changes.val) = sc_changes.val
        /\ AllAdjacentDiffer(sc_series) => sc_changes.val = sc_series

C4_Witness ==
    /\ sc_changes.some
    /\ Len(sc_changes.val) = 2
    /\ Len(sc_series) = 3
    /\ summarize_changes(sc_changes.val) = sc_changes.val

RECURSIVE Transitions(_, _)
Transitions(cr, k) ==
    IF k = 0 THEN 0
    ELSE Transitions(cr, k - 1) + (IF Len(cr[k][2]) > 1 THEN Len(cr[k][2]) - 1 ELSE 0)

\* C5: main assembles a report in which total_changes is the sum over labels
\* of max(0, len(change points) - 1), ok is total_changes == 0, and
\* total_changes is 0 exactly when every label has one change point.
C5_TotalChanges ==
    WellFormedRunEnded =>
        /\ change_report.some /\ total_changes.some /\ ok.some
        /\ total_changes.val = Transitions(change_report.val, Len(change_report.val))
        /\ ok.val = (total_changes.val = 0)
        /\ (total_changes.val = 0)
              <=> (\A k \in 1..Len(change_report.val) : Len(change_report.val[k][2]) = 1)

Retained(obs, cs) == \E j \in 1..Len(cs) : cs[j] = obs

\* the reader answered value v, failure, value v
ValueErrorValue ==
    /\ Len(results) = 3
    /\ results[1].ok /\ ~results[2].ok /\ results[3].ok
    /\ results[1].raw = results[3].raw

\* C6: a recorded Error outcome never equals a recorded Value outcome, whatever
\* the bytes and the message; so a failed sample next to a successful one is a
\* change point, and so is the successful sample after it: value, error, same
\* value gives three change points, that is two changes.
C6_ErrorNeverEqualsValue ==
    /\ \A j \in 1..Len(sc_series), l \in 1..Len(sc_series) :
          results[j].ok # results[l].ok
              => Outcome(sc_series[j]) # Outcome(sc_series[l])
    /\ sc_changes.some =>
          /\ \A j \in 2..Len(sc_series) :
                results[j].ok # results[j - 1].ok
                    => Retained(sc_series[j], sc_changes.val)
          /\ ValueErrorValue =>
                /\ sc_changes.val = sc_series
                /\ Len(sc_changes.val) - 1 = 2

C6_Witness ==
    /\ sc_changes.some
    /\ ValueErrorValue
    /\ Len(sc_changes.val) = 3

\* C7: when end < start or stride <= 0 the run is rejected before any storage
\* read: scan_timeline is never entered, no read is made, no report is
\* assembled, and the process ends with status 1.  Stated for a command line
\* that argparse accepted.
C7_RejectedBeforeReads ==
    (usage = "ok" /\ InputRejected) =>
        /\ ~scan_called
        /\ reads = 0
        /\ timeline = None /\ change_report = None /\ ok = None
        /\ pc = "exited" => exit_code = 1

C7_Witness ==
    /\ pc = "exited"
    /\ exit_code = 1
    /\ layout # "as_written"
    /\ usage = "ok"
    /\ from_block <= to_block
    /\ step = 0
    /\ address_ok /\ connected /\ slot_args # <<>>

\* C8: the exit status is 0 exactly when a scan completed without changes, 2
\* exactly when a scan completed with changes, and 1 when the input is
\* malformed or the endpoint unreachable, the exit then coming before any
\* scanning.  Stated for a command line that argparse accepted.
C8_ExitCodes ==
    (usage = "ok" /\ pc = "exited") =>
        /\ exit_code = 0 <=> (ok = Some(TRUE))
        /\ exit_code = 2 <=> (ok = Some(FALSE))
        /\ Malformed => exit_code = 1
        /\ exit_code = 1 => ~scan_called

\* C9: one progress notification is emitted per sampled block, and reporting
\* progress never changes the outcome of the scan.
C9_ProgressAdvisory ==
    (scan_called /\ ScanOver) =>
        /\ notified = Len(blocks)
        /\ exception # "NameError"

\* positions of s that open a run of equal outcomes
ChangePositions(s) ==
    {j \in 1..Len(s) : j = 1 \/ Outcome(s[j]) # Outcome(s[j - 1])}

\* the j-th smallest element of a set of positions
RECURSIVE NthPosition(_, _)
NthPosition(ps, j) ==
    LET m == CHOOSE x \in ps : \A y \in ps : x <= y
    IN IF j = 1 THEN m ELSE NthPosition(ps \ {m}, j - 1)

\* C10: the change points are exactly the first observation and every later
\* observation whose outcome differs from that of the observation just before
\* it, in timeline order; len(change points) - 1 is the number of adjacent
\* pairs with differing outcomes.
C10_ChangePoints ==
    sc_changes.some =>
        LET ps == ChangePositions(sc_series) IN
        /\ Len(sc_changes.val) = Cardinality(ps)
        /\ \A j \in 1..Len(sc_changes.val) :
              sc_changes.val[j] = sc_series[NthPosition(ps, j)]
        /\ Len(sc_changes.val) - 1 =
              Cardinality({j \in 2..Len(sc_series) :
                              Outcome(sc_series[j]) # Outcome(sc_series[j - 1])})

C10_Witness ==
    /\ sc_changes.some
    /\ Len(sc_series) = 3
    /\ Len(sc_changes.val) = 3
    /\ Outcome(sc_series[1]) = Outcome(sc_series[3])

====
